---------------------------- MODULE Spec2Model ----------------------------
(***************************************************************************)
(* A model of dart::planning::PathPlanner<RRT> (PathPlanner.h): planPath,  *)
(* planSingleTreeRrt and planBidirectionalRrt, over a one-DOF articulated  *)
(* system whose configurations are the integers 0..MaxPos and whose gap is *)
(* the Euclidean distance |a - b|.                                         *)
(*                                                                         *)
(* The RRT class itself (RRT.h / RRT.cpp) is not part of the sources at    *)
(* hand; its operations (reset, getSize, getGap, getRandomConfig, tryStep, *)
(* connect, tracePath, mActiveNode) are modelled from the design document  *)
(* (sections 3, 4.1, 4.2, 4.3, 4.6).                                       *)
(*                                                                         *)
(* A second, independent part models dart::dynamics::ShapeFrame::setShape  *)
(* (ShapeFrame.cpp): the shape a frame holds and the raises of its         *)
(* shape-updated signal.                                                   *)
(***************************************************************************)
EXTENDS Integers, Sequences, FiniteSets, TLC

\* ------------------------------------------------------------------ bounds

\* Configurations are 0..MaxPos (the DOF bounds of the one joint).
MaxPos == 2
\* The caller supplies at most this many start (and goal) configurations.
MaxSet == 2
\* maxNodes is drawn from 1..MaxNodesBound.
MaxNodesBound == 3
\* stepSize is drawn from 1..MaxStep.
MaxStep == 2
\* The random generator's state is kept modulo RngPeriod.
RngPeriod == 2
\* The shapes a caller can hand to setShape: MaxShapes objects, and nullptr.
MaxShapes == 2
\* At most this many setShape calls are made on the frame.
MaxCalls == 4

\* --------------------------------------------------------------- constants

\* Random numbers and goalBias are counted in halves: 0 = 0.0, 1 = 0.5, 2 = 1.0.
\* mDistribution is uniform over [0.0, nextafter(1.0, 2.0)), i.e. 0.0 .. 1.0.
RandomMax == 2

Configs == 0..MaxPos

RandomValues == 0..RandomMax

\* goalBias is 0.5: the target is the goal for a random number below it, a
\* random configuration otherwise, and both happen.
GoalBiasValues == {1}

\* The robot's configuration before the call.
HomeConfigs == {0}

\* The worlds: no obstacle, or one configuration in collision.
Worlds == {{}} \cup {{q} : q \in Configs}

\* The lists a caller passes as path: an empty one, or one that holds a
\* configuration already.
CallerPaths == {<<>>, <<0>>}

\* A tree: the configurations (mConfigs), the parent of each node (0: none,
\* the node is a root) and the active node (mActiveNode).  NoTree is the
\* null pointer held by start_rrt / goal_rrt before the first use.
NoTree == [cfgs |-> <<>>, parents |-> <<>>, active |-> 0]

\* What the test of scenario A has seen before the first iteration.
NoneSeen == [iterations |-> 0, offGoal |-> FALSE]

RECURSIVE SeqsUpTo(_, _)
SeqsUpTo(S, n) ==
    IF n = 0 THEN {<<>>}
    ELSE LET shorter == SeqsUpTo(S, n - 1)
         IN  shorter \cup {Append(s, x) : s \in {t \in shorter : Len(t) = n - 1}, x \in S}

VARIABLES
    connect,             \* PathPlanner::connect
    bidirectional,       \* PathPlanner::bidirectional
    stepSize,            \* PathPlanner::stepSize
    goalBias,            \* PathPlanner::goalBias (in halves)
    maxNodes,            \* PathPlanner::maxNodes
    obstacles,           \* the world: the configurations in collision
    positions,           \* the robot's DOF positions
    start_rrt,           \* PathPlanner::start_rrt
    goal_rrt,            \* PathPlanner::goal_rrt
    pc,                  \* where planPath is
    start,               \* planPath's argument start
    goal,                \* planPath's argument goal
    path,                \* planPath's argument path (the caller's list)
    savedConfiguration,  \* planPath's local
    feasibleStart,       \* planPath's local
    feasibleGoal,        \* planPath's local
    result,              \* planPath's return value
    numNodes,            \* the planners' local numNodes
    rrt1,                \* planBidirectionalRrt's rrt1: "start" or "goal" (rrt2 is the other)
    mMT,                 \* PathPlanner::mMT, the generator's state: it advances at each draw
    pathIn,              \* history: the caller's list as passed in
    nFront,              \* history: how many configurations this call pushed at the list's front
    sifted,              \* history: the configurations planPath's sift handed to the oracle, in order
    seen,                \* history kept by the test of scenario A: the loop iterations it has
                         \* counted, and whether one of them drew a number not below goalBias
    mShape,              \* ShapeFrame::mShapeFrameP.mShape: the shape the frame holds
    raised,              \* the raises of ShapeFrame::mShapeUpdatedSignal, in order: what
                         \* each handed to the slots as old and as new shape
    given                \* history: the arguments of the setShape calls made, in order

vars == <<connect, bidirectional, stepSize, goalBias, maxNodes, obstacles, positions,
          start_rrt, goal_rrt, pc, start, goal, path, savedConfiguration,
          feasibleStart, feasibleGoal, result, numNodes, rrt1, mMT,
          pathIn, nFront, sifted, seen, mShape, raised, given>>

\* The planner and what belongs to its planPath call.
planner == <<connect, bidirectional, stepSize, goalBias, maxNodes, obstacles, positions,
             start_rrt, goal_rrt, pc, start, goal, path, savedConfiguration,
             feasibleStart, feasibleGoal, result, numNodes, rrt1, mMT,
             pathIn, nFront, sifted, seen>>

\* The shape frame.
frame == <<mShape, raised, given>>

config == <<connect, bidirectional, stepSize, goalBias, maxNodes, obstacles>>

\* ------------------------------------------------- the RRT (design document)

\* A collision check that finds no collision.
CheckCollisionNever(q) == FALSE

\* world->checkCollision() after robot->setPositions(dofs, q).
CheckCollision(q) == q \in obstacles

\* The validity oracle of section 4.2.
IsValid(q) == ~CheckCollision(q)

\* The distance metric gap(a, b) of section 4.3.
Gap(a, b) == IF a >= b THEN a - b ELSE b - a

Min(a, b) == IF a <= b THEN a ELSE b

\* R::getSize.
Size(t) == Len(t.cfgs)

\* new R(world, robot, dofs, roots, stepSize, solver) and R::reset(...): one
\* root per configuration, the active node the most recently inserted one.
NewTree(roots) ==
    [cfgs |-> roots, parents |-> [i \in 1..Len(roots) |-> 0], active |-> Len(roots)]

\* An insertion that records as the new node's parent the parent of the
\* nearest node (none when the nearest node is a root).
AddNodeToGrandparent(t, q, parent) ==
    [cfgs |-> Append(t.cfgs, q), parents |-> Append(t.parents, t.parents[parent]),
     active |-> Len(t.cfgs) + 1]

\* Insertion of a node: appended to the arena, and made the active node.
AddNode(t, q, parent) ==
    [cfgs |-> Append(t.cfgs, q), parents |-> Append(t.parents, parent),
     active |-> Len(t.cfgs) + 1]

\* Nearest-neighbour query: a linear scan, the first of the nearest nodes.
Nearest(t, target) ==
    CHOOSE i \in 1..Size(t) :
        /\ \A j \in 1..Size(t) : Gap(t.cfgs[i], target) <= Gap(t.cfgs[j], target)
        /\ \A j \in 1..(i - 1) : Gap(t.cfgs[j], target) > Gap(t.cfgs[i], target)

\* The candidate of tryStep: at distance min(stepSize, gap) from q toward target.
Candidate(q, target) ==
    IF target >= q THEN q + Min(stepSize, Gap(q, target))
    ELSE q - Min(stepSize, Gap(q, target))

\* R::tryStep(target): the tree after the step, the status, and the robot's
\* positions, which the oracle query leaves at the candidate.
TryStep(t, target) ==
    LET n == Nearest(t, target)
        cand == Candidate(t.cfgs[n], target)
    IN  IF ~IsValid(cand)
        THEN [tree |-> t, status |-> "TRAPPED", positions |-> cand]
        ELSE [tree |-> AddNode(t, cand, n),
              status |-> IF cand = target THEN "REACHED" ELSE "ADVANCED",
              positions |-> cand]

\* R::connect(target): tryStep until TRAPPED or REACHED.
RECURSIVE Connect(_, _)
Connect(t, target) ==
    CHOOSE res \in {IF r.status = "ADVANCED" THEN Connect(r.tree, target) ELSE r :
                       r \in {TryStep(t, target)}} : TRUE

\* An extension that is a connect whatever PathPlanner::connect says.
ExtendConnectOnly(t, target) == Connect(t, target)

\* An extension that is a single tryStep whatever PathPlanner::connect says.
ExtendStepOnly(t, target) == TryStep(t, target)

\* The extension the planners make: connect or tryStep, per PathPlanner::connect.
Extend(t, target) == IF connect THEN Connect(t, target) ELSE TryStep(t, target)

\* R::getGap(target): the gap between the active node and the target.
GetGap(t, target) == Gap(t.cfgs[t.active], target)

\* The parent chain of a node, from the node to its root.
RECURSIVE ChainUp(_, _)
ChainUp(t, n) ==
    IF n = 0 THEN <<>> ELSE <<t.cfgs[n]>> \o ChainUp(t, t.parents[n])

Reverse(s) == [i \in 1..Len(s) |-> s[Len(s) + 1 - i]]

\* R::tracePath(node, path, reverse): walks from the node to its root; each
\* configuration goes to the front of the list (root-to-node order), or to
\* its back when reverse is set (node-to-root order).
TracePath(t, n, p, reverse) ==
    IF reverse THEN p \o ChainUp(t, n) ELSE Reverse(ChainUp(t, n)) \o p

\* ------------------------------------------------------------- ShapeFrame

\* A null ShapePtr.
NoShape == 0

\* The shape pointers: nullptr and the shape objects, told apart by identity.
Shapes == 0..MaxShapes

\* ShapeFrame.cpp lines 330-340: the frame as the constructor's initialiser
\* list leaves it, holding no shape, its signal not raised yet; the
\* constructor's body then calls setShape (lines 230, 346).
FrameInit ==
    /\ mShape = NoShape
    /\ raised = <<>>
    /\ given = <<>>

\* The test for the held shape left out: no shape counts as the held one.
SameShapeNever(shape) == FALSE

\* ShapeFrame.cpp line 260: the argument is the shape the frame holds (the
\* same pointer).
SameShape(shape) == shape = mShape

\* ShapeFrame.cpp lines 258-268: setShape returns at once when handed the
\* shape the frame holds; otherwise it keeps the old shape, stores the new
\* one and raises the signal with the old and the stored shape.
SetShape(shape) ==
    /\ Len(given) < MaxCalls
    /\ given' = Append(given, shape)
    /\ IF SameShape(shape)
       THEN UNCHANGED <<mShape, raised>>
       ELSE \E oldShape \in {mShape} :
                /\ mShape' = shape
                /\ raised' = Append(raised, [old |-> oldShape, new |-> mShape'])
    /\ UNCHANGED planner

\* --------------------------------------------------------------- planPath

TypeOK ==
    /\ connect \in BOOLEAN /\ bidirectional \in BOOLEAN
    /\ stepSize \in 1..MaxStep /\ goalBias \in GoalBiasValues
    /\ maxNodes \in 1..MaxNodesBound
    /\ obstacles \in Worlds /\ positions \in Configs
    /\ pc \in {"idle", "single", "bidir", "done"}
    /\ result \in BOOLEAN /\ rrt1 \in {"start", "goal"}

Init ==
    /\ connect \in BOOLEAN
    /\ bidirectional \in BOOLEAN
    /\ stepSize \in 1..MaxStep
    /\ goalBias \in GoalBiasValues
    /\ maxNodes \in 1..MaxNodesBound
    /\ obstacles \in Worlds
    /\ positions \in HomeConfigs
    /\ start_rrt = NoTree
    /\ goal_rrt = NoTree
    /\ pc = "idle"
    /\ start = <<>>
    /\ goal = <<>>
    /\ path = <<>>
    /\ savedConfiguration = positions
    /\ feasibleStart = <<>>
    /\ feasibleGoal = <<>>
    /\ result = FALSE
    /\ numNodes = 0
    /\ rrt1 = "start"
    /\ mMT = 0
    /\ pathIn = <<>>
    /\ nFront = 0
    /\ sifted = <<>>
    /\ seen = NoneSeen
    /\ FrameInit

\* A sift that keeps every configuration, the collision check left out.
FeasibleUnchecked(s) == s

\* Lines 124-129 and 139-144: the configurations of s that are not in
\* collision, in order.
RECURSIVE Feasible(_)
Feasible(s) ==
    IF s = <<>> THEN <<>>
    ELSE IF ~CheckCollision(Head(s)) THEN <<Head(s)>> \o Feasible(Tail(s))
    ELSE Feasible(Tail(s))

\* Lines 127 and 142: the robot's positions after a sift through s, which
\* sets them to each configuration of s in turn.
AfterSift(s, before) == IF s = <<>> THEN before ELSE s[Len(s)]

\* The test for an empty feasible set left out.
NoFeasibleMissed(f) == FALSE

\* Lines 132 and 147: there is no feasible configuration.
NoFeasible(f) == f = <<>>

\* Lines 195 and 265: a draw from mDistribution advances the generator.
Drawn(state) == (state + 1) % RngPeriod

\* The restore left out: the robot keeps the positions the last oracle query
\* gave it.
RestoredNot == positions

\* Lines 168-169: the configuration planPath restores before it returns the
\* planner's result.
Restored == savedConfiguration

\* The single-tree loop condition with < for <=.
SingleLoopCondStrict == numNodes < maxNodes

\* Line 191: the single-tree loop condition.
SingleLoopCond == numNodes <= maxNodes

\* The bidirectional loop condition with <= for <, as in the single-tree loop.
BidirectionalLoopCondLoose == numNodes <= maxNodes

\* Line 257: the bidirectional loop condition.
BidirectionalLoopCond == numNodes < maxNodes

\* The goal test with <= for <.
GoalReachedLoose(gap) == gap <= stepSize

\* Line 209: the goal counts as reached.
GoalReached(gap) == gap < stepSize

\* R::reset(world, robot, dofs, roots, stepSize, solver): the tree forgets its
\* nodes and holds one root per configuration.
Reset(t, roots) == NewTree(roots)

\* The roots given a parent: each root is linked to the root before it, and
\* the first root to the last.
InitTreeLinked(old, roots) ==
    [NewTree(roots) EXCEPT !.parents =
        [i \in 1..Len(roots) |-> IF i = 1 THEN Len(roots) ELSE i - 1]]

\* A retained tree that is kept as it is, the reset left out.
InitTreeKept(old, roots) == IF old = NoTree THEN NewTree(roots) ELSE old

\* A reset that adds the new roots to the nodes the tree holds already.
InitTreeAppended(old, roots) ==
    IF old = NoTree THEN NewTree(roots)
    ELSE [cfgs |-> old.cfgs \o roots,
          parents |-> old.parents \o [i \in 1..Len(roots) |-> 0],
          active |-> Len(old.cfgs) + Len(roots)]

\* Lines 184-187 and 241-249: the tree is created when the planner holds
\* none, and reset otherwise.
InitTree(old, roots) == IF old = NoTree THEN NewTree(roots) ELSE Reset(old, roots)

\* Lines 118-151: planPath saves the robot's configuration and sifts the
\* starts, then the goals; it returns false at once when no start, or no
\* goal, is feasible.  Otherwise (lines 156-166, 183-190, 241-256) it enters
\* planBidirectionalRrt or planSingleTreeRrt, which creates or resets the
\* tree(s) and reads their size.
PlanPath(st, gl, p) ==
    /\ pc = "idle"
    /\ start' = st
    /\ goal' = gl
    /\ path' = p
    /\ pathIn' = p
    /\ nFront' = 0
    /\ savedConfiguration' = positions
    /\ feasibleStart' = Feasible(st)
    /\ rrt1' = "start"
    /\ IF NoFeasible(feasibleStart')
       THEN /\ positions' = AfterSift(st, positions)
            /\ sifted' = st
            /\ feasibleGoal' = <<>>
            /\ result' = FALSE
            /\ pc' = "done"
            /\ UNCHANGED <<start_rrt, goal_rrt, numNodes>>
       ELSE /\ feasibleGoal' = Feasible(gl)
            /\ positions' = AfterSift(gl, AfterSift(st, positions))
            /\ sifted' = st \o gl
            /\ IF NoFeasible(feasibleGoal')
               THEN /\ result' = FALSE
                    /\ pc' = "done"
                    /\ UNCHANGED <<start_rrt, goal_rrt, numNodes>>
               ELSE /\ result' = FALSE
                    /\ start_rrt' = InitTree(start_rrt, feasibleStart')
                    /\ IF bidirectional
                       THEN /\ goal_rrt' = InitTree(goal_rrt, feasibleGoal')
                            /\ numNodes' = Size(start_rrt') + Size(goal_rrt')
                            /\ pc' = "bidir"
                       ELSE /\ numNodes' = Size(start_rrt')
                            /\ pc' = "single"
                            /\ UNCHANGED goal_rrt
    /\ UNCHANGED <<frame, config, mMT, seen>>

\* The goal of the single-tree planner taken from the other end of the
\* feasible goals.
SingleGoalLast == feasibleGoal[Len(feasibleGoal)]

\* Line 165: the goal planSingleTreeRrt is given, feasibleGoal.front().
SingleGoal == Head(feasibleGoal)

\* The path traced in every iteration, whether the goal is reached or not.
SingleTreePathTracedAlways(tree, reached) == TracePath(tree, tree.active, path, FALSE)

\* Lines 209-214: the caller's list after an iteration of the single-tree
\* loop: the path is traced into it only when the goal is reached.
SingleTreePath(tree, reached) ==
    IF reached THEN TracePath(tree, tree.active, path, FALSE) ELSE path

\* Lines 191-218 and 168-171: one iteration of the single-tree loop, with
\* the random number r and the random configuration sample.  When the goal
\* is reached the path is traced, planSingleTreeRrt returns true and planPath
\* restores the robot's configuration and returns.
SingleTreeLoop(r, sample) ==
    /\ pc = "single"
    /\ SingleLoopCond
    /\ mMT' = Drawn(mMT)
    /\ \E ext \in {Extend(start_rrt, IF r < goalBias THEN SingleGoal ELSE sample)} :
       LET gap == GetGap(ext.tree, SingleGoal)
       IN  /\ start_rrt' = ext.tree
           /\ path' = SingleTreePath(ext.tree, GoalReached(gap))
           /\ nFront' = Len(path') - Len(path)
           /\ IF GoalReached(gap)
              THEN /\ result' = TRUE
                   /\ positions' = Restored
                   /\ pc' = "done"
                   /\ UNCHANGED numNodes
              ELSE /\ numNodes' = Size(ext.tree)
                   /\ positions' = ext.positions
                   /\ pc' = "single"
                   /\ UNCHANGED result
    /\ UNCHANGED <<frame, config, goal_rrt, start, goal, savedConfiguration, feasibleStart,
                   feasibleGoal, rrt1, pathIn, sifted>>

\* An iteration of the single-tree loop that no test counts.
SingleTreeIteration(r, sample) == SingleTreeLoop(r, sample) /\ UNCHANGED seen

\* An iteration of the single-tree loop that the test of scenario A counts.
CountedSingleTreeIteration(r, sample) ==
    /\ SingleTreeLoop(r, sample)
    /\ seen' = [iterations |-> seen.iterations + 1,
                offGoal |-> seen.offGoal \/ ~(r < goalBias)]

\* Lines 191, 220-224 and 168-171: the loop ends, planSingleTreeRrt returns
\* false, planPath restores the robot's configuration and returns.
SingleTreeExhausted ==
    /\ pc = "single"
    /\ ~SingleLoopCond
    /\ result' = FALSE
    /\ positions' = Restored
    /\ pc' = "done"
    /\ UNCHANGED <<frame, config, start_rrt, goal_rrt, start, goal, path,
                   savedConfiguration, feasibleStart, feasibleGoal, numNodes, rrt1,
                   mMT, pathIn, nFront, sifted, seen>>

OtherTree(name) == IF name = "start" THEN "goal" ELSE "start"

\* The two pointers taken for each other: rrt1 set to the goal tree, rrt2
\* to the start tree.
TreeOfCrossed(name) == IF name = "start" THEN goal_rrt ELSE start_rrt

\* Lines 251-252: the tree a pointer refers to.
TreeOf(name) == IF name = "start" THEN start_rrt ELSE goal_rrt

\* The meeting path with the two trees taken for each other.
MeetingPathSwapped(startTree, goalTree, p) ==
    TracePath(startTree, startTree.active,
              TracePath(goalTree, goalTree.active, p, FALSE), TRUE)

\* The meeting path with the goal tree's trace not reversed.
MeetingPathNoReverse(startTree, goalTree, p) ==
    TracePath(goalTree, goalTree.active,
              TracePath(startTree, startTree.active, p, FALSE), FALSE)

\* The meeting path traced through the role pointers: the growing tree's
\* trace first, then the other tree's, reversed.
MeetingPathByRole(startTree, goalTree, p) ==
    IF OtherTree(rrt1) = "start"
    THEN TracePath(goalTree, goalTree.active,
                   TracePath(startTree, startTree.active, p, FALSE), TRUE)
    ELSE TracePath(startTree, startTree.active,
                   TracePath(goalTree, goalTree.active, p, FALSE), TRUE)

\* Lines 291-292: the path of a meeting: the start tree's trace, then the
\* goal tree's trace, reversed.
MeetingPath(startTree, goalTree, p) ==
    TracePath(goalTree, goalTree.active,
              TracePath(startTree, startTree.active, p, FALSE), TRUE)

\* Line 282: the target of rrt2, the configuration of rrt1's active node.
Rrt2Target(t) == t.cfgs[t.active]

\* The meeting test that takes any node added by rrt2 for a meeting.
TreesMetOnAdvance(ext) == ext.status # "TRAPPED"

\* Lines 283-286: the trees have met when rrt2's connect returns true, or
\* its tryStep STEP_REACHED.
TreesMet(ext) == ext.status = "REACHED"

\* The target under the bias taken from the tree that is not growing: the
\* first feasible start when the goal tree grows.
BidirectionalTargetOpposite(r, sample) ==
    IF r < goalBias
    THEN (IF OtherTree(rrt1) = "goal" THEN Head(feasibleStart) ELSE Head(feasibleGoal))
    ELSE sample

\* Lines 264-269: the target of the growing tree: goal[0] for a random
\* number below goalBias, a random configuration otherwise.
BidirectionalTarget(r, sample) == IF r < goalBias THEN Head(feasibleGoal) ELSE sample

\* Lines 257-297 and 168-171: one iteration of the bidirectional loop.  After
\* the swap of line 261 the growing tree (rrt1) is the one that was rrt2.
BidirectionalLoop(r, sample) ==
    /\ pc = "bidir"
    /\ BidirectionalLoopCond
    /\ mMT' = Drawn(mMT)
    /\ \E ext1 \in {Extend(TreeOf(OtherTree(rrt1)), BidirectionalTarget(r, sample))} :
       \E ext2 \in {Extend(TreeOf(rrt1), Rrt2Target(ext1.tree))} :
       LET growing == OtherTree(rrt1)
           treesMet == TreesMet(ext2)
           startTree == IF growing = "start" THEN ext1.tree ELSE ext2.tree
           goalTree == IF growing = "start" THEN ext2.tree ELSE ext1.tree
       IN  /\ rrt1' = growing
           /\ start_rrt' = startTree
           /\ goal_rrt' = goalTree
           /\ IF treesMet
              THEN /\ path' = MeetingPath(startTree, goalTree, path)
                   /\ nFront' = Len(ChainUp(startTree, startTree.active))
                   /\ result' = TRUE
                   /\ positions' = Restored
                   /\ pc' = "done"
                   /\ UNCHANGED numNodes
              ELSE /\ numNodes' = Size(startTree) + Size(goalTree)
                   /\ positions' = ext2.positions
                   /\ pc' = "bidir"
                   /\ UNCHANGED <<path, nFront, result>>
    /\ UNCHANGED <<frame, config, start, goal, savedConfiguration, feasibleStart, feasibleGoal,
                   pathIn, sifted>>

\* An iteration of the bidirectional loop that no test counts.
BidirectionalIteration(r, sample) == BidirectionalLoop(r, sample) /\ UNCHANGED seen

\* An iteration of the bidirectional loop that a test counts, which also
\* notes whether a number not below goalBias has been drawn.  The test
\* counts up to maxNodes and no further: the iterations that add no node
\* may go on without end.
CountedBidirectionalIteration(r, sample) ==
    /\ BidirectionalLoop(r, sample)
    /\ seen' = [iterations |-> Min(seen.iterations + 1, maxNodes),
                offGoal |-> seen.offGoal \/ ~(r < goalBias)]

\* Lines 257, 312-313 and 168-171: the loop ends, planBidirectionalRrt
\* returns false, planPath restores the robot's configuration and returns.
BidirectionalExhausted ==
    /\ pc = "bidir"
    /\ ~BidirectionalLoopCond
    /\ result' = FALSE
    /\ positions' = Restored
    /\ pc' = "done"
    /\ UNCHANGED <<frame, config, start_rrt, goal_rrt, start, goal, path,
                   savedConfiguration, feasibleStart, feasibleGoal, numNodes, rrt1,
                   mMT, pathIn, nFront, sifted, seen>>

\* The overload with the start given for the goal as well.
PlanPathSingleStartTwice(s, g, p) == PlanPath(Append(<<>>, s), Append(<<>>, s), p)

\* Lines 62-70: the overload for a single start and a single goal puts each
\* into a vector of its own and calls the set-based planPath with the two.
PlanPathSingle(s, g, p) ==
    LET startVector == Append(<<>>, s)
        goalVector == Append(<<>>, g)
    IN  PlanPath(startVector, goalVector, p)

\* Lines 171 and 40-42: planPath has returned and its caller may call it
\* again.  The planner keeps its trees and its generator, the robot keeps its
\* positions; planPath's arguments and locals are gone.
Return ==
    /\ pc = "done"
    /\ pc' = "idle"
    /\ start' = <<>>
    /\ goal' = <<>>
    /\ path' = <<>>
    /\ savedConfiguration' = positions
    /\ feasibleStart' = <<>>
    /\ feasibleGoal' = <<>>
    /\ result' = FALSE
    /\ numNodes' = 0
    /\ rrt1' = "start"
    /\ pathIn' = <<>>
    /\ nFront' = 0
    /\ sifted' = <<>>
    /\ UNCHANGED <<frame, config, positions, start_rrt, goal_rrt, mMT, seen>>

Next ==
    \/ \E st \in SeqsUpTo(Configs, MaxSet), gl \in SeqsUpTo(Configs, MaxSet),
          p \in CallerPaths :
           PlanPath(st, gl, p)
    \/ \E r \in RandomValues, sample \in Configs : SingleTreeIteration(r, sample)
    \/ SingleTreeExhausted
    \/ \E r \in RandomValues, sample \in Configs : BidirectionalIteration(r, sample)
    \/ BidirectionalExhausted

Spec == Init /\ [][Next]_vars

\* The runs checked for termination: a planner with the largest budget and
\* the smallest step, called with at most one start and one goal and an
\* empty list.
LiveInit == Init /\ maxNodes = MaxNodesBound /\ stepSize = 1

LiveNext ==
    \/ \E st \in SeqsUpTo(Configs, 1), gl \in SeqsUpTo(Configs, 1) :
           PlanPath(st, gl, <<>>)
    \/ \E r \in RandomValues, sample \in Configs : SingleTreeIteration(r, sample)
    \/ SingleTreeExhausted
    \/ \E r \in RandomValues, sample \in Configs : BidirectionalIteration(r, sample)
    \/ BidirectionalExhausted

\* planPath is synchronous and single-threaded: the caller's thread runs it
\* to its return, so a step that is possible is eventually taken.
FairSpec == LiveInit /\ [][LiveNext]_vars /\ WF_vars(LiveNext)

\* The runs in which the planner is used again: planPath is called, with
\* sets or through the overload, after an earlier call has returned.  The
\* planner has the largest budget and the smallest step, and the world has
\* no obstacle, or configuration 1 in collision.
ReuseInit == Init /\ maxNodes = MaxNodesBound /\ stepSize = 1 /\ obstacles \in {{}, {1}}

ReuseNext ==
    \/ \E st \in SeqsUpTo(Configs, MaxSet), gl \in SeqsUpTo(Configs, MaxSet),
          p \in CallerPaths :
           PlanPath(st, gl, p)
    \/ \E s \in Configs, g \in Configs, p \in CallerPaths : PlanPathSingle(s, g, p)
    \/ \E r \in RandomValues, sample \in Configs : SingleTreeIteration(r, sample)
    \/ SingleTreeExhausted
    \/ \E r \in RandomValues, sample \in Configs : BidirectionalIteration(r, sample)
    \/ BidirectionalExhausted
    \/ Return

ReuseSpec == ReuseInit /\ [][ReuseNext]_vars

\* Scenario A: the start and the goal, five steps of size 1 apart, and the
\* DOF bounds the random configurations are drawn from.
ScenarioAStart == <<0>>

ScenarioAGoal == <<5>>

ScenarioAConfigs == Head(ScenarioAStart)..Head(ScenarioAGoal)

\* The number of steps of size 1 from the start to the goal of scenario A.
ScenarioASteps == Head(ScenarioAGoal) - Head(ScenarioAStart)

\* The planner of scenario A: a single tree, stepSize 1.0, goalBias 1.0, a
\* budget of five nodes or of six, in a world without obstacles.
ScenarioAInit ==
    /\ connect \in BOOLEAN
    /\ bidirectional = FALSE
    /\ stepSize = 1
    /\ goalBias = RandomMax
    /\ maxNodes \in {ScenarioASteps, ScenarioASteps + 1}
    /\ obstacles = {}
    /\ positions \in HomeConfigs
    /\ start_rrt = NoTree
    /\ goal_rrt = NoTree
    /\ pc = "idle"
    /\ start = <<>>
    /\ goal = <<>>
    /\ path = <<>>
    /\ savedConfiguration = positions
    /\ feasibleStart = <<>>
    /\ feasibleGoal = <<>>
    /\ result = FALSE
    /\ numNodes = 0
    /\ rrt1 = "start"
    /\ mMT = 0
    /\ pathIn = <<>>
    /\ nFront = 0
    /\ sifted = <<>>
    /\ seen = NoneSeen
    /\ FrameInit

ScenarioANext ==
    \/ PlanPath(ScenarioAStart, ScenarioAGoal, <<>>)
    \/ \E r \in RandomValues, sample \in ScenarioAConfigs :
           CountedSingleTreeIteration(r, sample)
    \/ SingleTreeExhausted

ScenarioASpec == ScenarioAInit /\ [][ScenarioANext]_vars

\* The runs in which the two trees take turns: a bidirectional planner whose
\* budget lets the loop go on after both trees have grown, so that each tree
\* is the growing one in some iteration.
MeetingBudget == MaxNodesBound + 2

MeetingInit ==
    /\ connect \in BOOLEAN
    /\ bidirectional = TRUE
    /\ stepSize \in 1..MaxStep
    /\ goalBias \in GoalBiasValues
    /\ maxNodes = MeetingBudget
    /\ obstacles \in Worlds
    /\ positions \in HomeConfigs
    /\ start_rrt = NoTree
    /\ goal_rrt = NoTree
    /\ pc = "idle"
    /\ start = <<>>
    /\ goal = <<>>
    /\ path = <<>>
    /\ savedConfiguration = positions
    /\ feasibleStart = <<>>
    /\ feasibleGoal = <<>>
    /\ result = FALSE
    /\ numNodes = 0
    /\ rrt1 = "start"
    /\ mMT = 0
    /\ pathIn = <<>>
    /\ nFront = 0
    /\ sifted = <<>>
    /\ seen = NoneSeen
    /\ FrameInit

MeetingNext ==
    \/ \E st \in SeqsUpTo(Configs, MaxSet), gl \in SeqsUpTo(Configs, MaxSet),
          p \in CallerPaths :
           PlanPath(st, gl, p)
    \/ \E r \in RandomValues, sample \in Configs :
           CountedBidirectionalIteration(r, sample)
    \/ BidirectionalExhausted

MeetingSpec == MeetingInit /\ [][MeetingNext]_vars

\* The runs of a shape frame: setShape calls with any shape or nullptr, on a
\* frame that stands beside an idle planner.
ShapeInit ==
    /\ Init
    /\ ~connect /\ ~bidirectional
    /\ stepSize = 1 /\ maxNodes = 1 /\ obstacles = {}

ShapeNext == \E shape \in Shapes : SetShape(shape)

ShapeSpec == ShapeInit /\ [][ShapeNext]_vars

\* ----------------------------------------------------------------- claims

\* planPath has returned.
Returned == pc = "done"

\* A planner ran: a start and a goal passed the sift.
PlannerRan == feasibleStart # <<>> /\ feasibleGoal # <<>>

Elems(s) == {s[i] : i \in 1..Len(s)}

Last(s) == s[Len(s)]

\* The returned path: the configurations this call put into the caller's
\* list, in the list's order (what the caller had put there is left out).
ReturnedPath ==
    SubSeq(path, 1, nFront) \o SubSeq(path, nFront + Len(pathIn) + 1, Len(path))

NodeConfigs == Elems(start_rrt.cfgs) \cup Elems(goal_rrt.cfgs)

\* C1 (as claimed): on every exit path of planPath the robot's positions
\* equal the positions it had immediately before the call.
C1_RestoreOnEveryExit == Returned => positions = savedConfiguration

\* C2: every node of a tree has passed the validity oracle, and when planPath
\* returns success every configuration of the returned path is the
\* configuration of a tree node, hence valid.
C2_ReturnedPathValid ==
    /\ \A q \in NodeConfigs : IsValid(q)
    /\ (Returned /\ result) =>
           \A i \in 1..Len(ReturnedPath) :
               ReturnedPath[i] \in NodeConfigs /\ IsValid(ReturnedPath[i])

\* C2's case: a successful plan in a world with an obstacle, whose path has
\* several configurations, a root and an inserted node among them.
C2_Witness ==
    /\ Returned /\ result /\ obstacles # {}
    /\ Len(ReturnedPath) >= 3
    /\ Size(start_rrt) > Len(feasibleStart)

\* C3 (as claimed): on success the returned path starts at a feasible start
\* and ends at a feasible goal, in both topologies; without success no path
\* is produced.
C3_PathFromStartToGoal ==
    /\ (Returned /\ result) =>
           /\ ReturnedPath # <<>>
           /\ Head(ReturnedPath) \in Elems(feasibleStart)
           /\ Last(ReturnedPath) \in Elems(feasibleGoal)
    /\ (Returned /\ ~result) => path = pathIn

\* C3 (amended): on success the returned path starts at a feasible start; it
\* ends at a feasible goal in the bidirectional topology, and in the
\* single-tree topology at a configuration whose gap to the first feasible
\* goal is less than stepSize; without success no path is produced.
C3_PathEnds ==
    /\ (Returned /\ result) =>
           /\ ReturnedPath # <<>>
           /\ Head(ReturnedPath) \in Elems(feasibleStart)
           /\ bidirectional => Last(ReturnedPath) \in Elems(feasibleGoal)
           /\ ~bidirectional => Gap(Last(ReturnedPath), Head(feasibleGoal)) < stepSize
    /\ (Returned /\ ~result) => path = pathIn

\* C3's case: a single-tree success whose path does not end at a goal, and
\* (in other runs) a bidirectional success.
C3_Witness ==
    /\ Returned /\ result /\ ~bidirectional
    /\ Last(ReturnedPath) \notin Elems(feasibleGoal)
    /\ Len(ReturnedPath) >= 2

\* C4 (as claimed): every planPath call eventually returns.
C4_Termination == <>Returned

\* A configuration sequence none of whose members passes the oracle.
AllFail(s) == \A i \in 1..Len(s) : CheckCollision(s[i])

\* C5: once planPath is called with starts that all fail the oracle, or with
\* goals that all fail it, it has returned failure at once: it is in no
\* planner loop, it holds no tree, and the generator has made no draw.
C5_NoGrowthWhenInfeasible ==
    (pc # "idle" /\ (AllFail(start) \/ AllFail(goal))) =>
        /\ Returned /\ ~result
        /\ start_rrt = NoTree /\ goal_rrt = NoTree
        /\ numNodes = 0 /\ mMT = 0
        /\ path = pathIn

\* C5's case: a call with a feasible start and goals that all fail, returned.
C5_Witness ==
    /\ Returned /\ feasibleStart # <<>> /\ goal # <<>> /\ AllFail(goal)

\* C6: the single-tree planner returns success only with the active node's
\* gap to the goal below stepSize, and the returned path ends at the active
\* node's configuration.
C6_SingleTreeSuccess ==
    (Returned /\ result /\ ~bidirectional) =>
        /\ GetGap(start_rrt, Head(feasibleGoal)) < stepSize
        /\ ReturnedPath # <<>>
        /\ Last(ReturnedPath) = start_rrt.cfgs[start_rrt.active]
        /\ Gap(Last(ReturnedPath), Head(feasibleGoal)) < stepSize

\* C6's case: a single-tree success at an inserted node that is near the goal
\* and not at it.
C6_Witness ==
    /\ Returned /\ result /\ ~bidirectional
    /\ start_rrt.active > Len(feasibleStart)
    /\ GetGap(start_rrt, Head(feasibleGoal)) > 0

\* C7: in the path of a bidirectional success, consecutive configurations
\* are at most stepSize apart, except possibly the two that join the start
\* tree's trace to the goal tree's; the first is a feasible start and the
\* last a feasible goal.
C7_BidirectionalContiguity ==
    (Returned /\ result /\ bidirectional) =>
        /\ ReturnedPath # <<>>
        /\ \A i \in 1..(Len(ReturnedPath) - 1) :
               i # nFront => Gap(ReturnedPath[i], ReturnedPath[i + 1]) <= stepSize
        /\ Head(ReturnedPath) \in Elems(feasibleStart)
        /\ Last(ReturnedPath) \in Elems(feasibleGoal)

\* C7's case: a bidirectional success in which both trees have grown.
C7_Witness ==
    /\ Returned /\ result /\ bidirectional
    /\ Size(start_rrt) > Len(feasibleStart)
    /\ Size(goal_rrt) > Len(feasibleGoal)
    /\ Head(ReturnedPath) # Last(ReturnedPath)

\* C8: in the single-tree loop another iteration starts (a draw is made)
\* exactly when the tree's size is at most maxNodes; the planner returns
\* failure only with the tree's size above maxNodes.
C8_SingleTreeBudget ==
    [][pc = "single" =>
          /\ Size(start_rrt) <= maxNodes => mMT' # mMT
          /\ Size(start_rrt) > maxNodes =>
                 (mMT' = mMT /\ pc' = "done" /\ ~result' /\ start_rrt' = start_rrt)
          /\ (pc' = "done" /\ ~result') => Size(start_rrt') > maxNodes]_vars

\* C8's case: the single-tree planner has returned failure after growing
\* the tree.
C8_Witness ==
    /\ Returned /\ ~result /\ ~bidirectional /\ PlannerRan
    /\ Size(start_rrt) > Len(feasibleStart)
    /\ Size(start_rrt) > maxNodes

\* C9 (as claimed): the bidirectional planner returns failure only with the
\* combined size of the two trees above maxNodes.
C9_BidirectionalFailureExceeds ==
    (Returned /\ ~result /\ bidirectional /\ PlannerRan) =>
        Size(start_rrt) + Size(goal_rrt) > maxNodes

\* C10 (as claimed): a bidirectional iteration in which the growing tree
\* gains no node still advances the number compared against maxNodes.
C10_TrappedIterationCounts ==
    [][(pc = "bidir" /\ pc' = "bidir" /\ mMT' # mMT
        /\ (IF rrt1' = "start" THEN Size(start_rrt') = Size(start_rrt)
            ELSE Size(goal_rrt') = Size(goal_rrt)))
       => numNodes' > numNodes]_vars

\* The node reached from node n of tree t by following k parent links (0:
\* the links have run out, the chain has ended at a root before).
RECURSIVE Ancestor(_, _, _)
Ancestor(t, n, k) ==
    IF k = 0 \/ n = 0 THEN n ELSE Ancestor(t, t.parents[n], k - 1)

\* Following parent links from node n of tree t reaches a root in k steps,
\* and no node is met twice on the way.
ReachesRootIn(t, n, k) ==
    /\ Ancestor(t, n, k) # 0
    /\ t.parents[Ancestor(t, n, k)] = 0
    /\ \A i, j \in 0..k : i # j => Ancestor(t, n, i) # Ancestor(t, n, j)

Acyclic(t) ==
    \A n \in 1..Size(t) :
        /\ t.parents[n] \in 0..Size(t)
        /\ \E k \in 0..(Size(t) - 1) : ReachesRootIn(t, n, k)

\* C11: in every state, for every node of the start tree and of the goal
\* tree, following parent links reaches a root in fewer steps than the
\* tree's size, and no node appears twice on that chain.
C11_Acyclicity == Acyclic(start_rrt) /\ Acyclic(goal_rrt)

\* C11's case: a tree with several roots in which a node is two links away
\* from its root.
C11_Witness ==
    /\ Len(feasibleStart) >= 2
    /\ \E n \in 1..Size(start_rrt) :
           /\ ReachesRootIn(start_rrt, n, 2)
           /\ Ancestor(start_rrt, n, 2) # 1

\* Tree b holds every node of tree a, at the same index, with the same
\* configuration and the same parent.
Extends(a, b) ==
    /\ Size(b) >= Size(a)
    /\ \A i \in 1..Size(a) : b.cfgs[i] = a.cfgs[i] /\ b.parents[i] = a.parents[i]

\* C12: no step of a planner's loop removes a node of a tree or changes the
\* configuration, the parent or the index of a node the tree holds; so the
\* size of a tree never decreases between two successive states.
C12_AppendOnly ==
    [][(pc = "single" \/ pc = "bidir") =>
          (/\ Extends(start_rrt, start_rrt')
           /\ Extends(goal_rrt, goal_rrt')
           /\ Size(start_rrt') >= Size(start_rrt)
           /\ Size(goal_rrt') >= Size(goal_rrt))]_vars

\* C12's case: a bidirectional plan that has ended without a meeting after
\* both trees have grown.
C12_Witness ==
    /\ Returned /\ ~result /\ bidirectional
    /\ Size(start_rrt) > Len(feasibleStart)
    /\ Size(goal_rrt) > Len(feasibleGoal)

\* C13 (as claimed): whenever all supplied starts fail the oracle, planPath
\* returns false, the path is empty and the tree has size 0, whatever the
\* planner did before and whatever the caller's list held.
C13_ScenarioB ==
    (pc # "idle" /\ AllFail(start)) =>
        /\ Returned /\ ~result
        /\ path = <<>>
        /\ Size(start_rrt) = 0

\* C13 (amended): a call all of whose starts fail the oracle returns false
\* at once and leaves the caller's list as it was passed and both trees as
\* they were before the call.
C13_InfeasibleStartLeavesAll ==
    [][(pc = "idle" /\ pc' # "idle" /\ AllFail(start')) =>
          (/\ pc' = "done" /\ ~result'
           /\ path' = pathIn'
           /\ start_rrt' = start_rrt /\ goal_rrt' = goal_rrt
           /\ mMT' = mMT)]_vars

\* C13's case: a call whose starts all fail has returned, on a planner that
\* holds a tree grown in an earlier call, with a list that was not empty.
C13_Witness ==
    /\ Returned /\ ~result /\ start # <<>> /\ AllFail(start)
    /\ Size(start_rrt) > 1
    /\ path # <<>>

\* A bidirectional call with one start and one goal, both feasible.
OneStartOneGoal ==
    /\ bidirectional
    /\ Len(start) = 1 /\ Len(goal) = 1
    /\ feasibleStart = start /\ feasibleGoal = goal

ScenarioAOutcome ==
    /\ pc = "single" => seen.iterations < ScenarioASteps
    /\ Returned =>
           /\ result
           /\ seen.iterations <= ScenarioASteps
           /\ ScenarioAConfigs \subseteq Elems(start_rrt.cfgs)

\* C15 (as claimed): in scenario A (no obstacle, start 0, goal 5, stepSize
\* 1.0, goalBias 1.0, maxNodes at least 5) the single-tree planner returns
\* success after at most 5 iterations, in STEP and in CONNECT mode, and the
\* tree then holds the nodes of the segment from the start to the goal.
C15_ScenarioA == ScenarioAOutcome

\* C15 (amended): in scenario A, as long as every number drawn is below
\* goalBias, so that the goal is the target of every iteration, the planner
\* returns success after at most 5 iterations (exactly 5 in STEP mode, 1 in
\* CONNECT mode) and the tree holds the nodes of the segment.
C15_ScenarioAGoalTargeted ==
    ~seen.offGoal =>
        /\ ScenarioAOutcome
        /\ Returned => seen.iterations = (IF connect THEN 1 ELSE ScenarioASteps)

\* C15's case: scenario A in STEP mode with a budget of five nodes has
\* returned after five iterations, each with the goal as its target.
C15_Witness ==
    /\ Returned /\ result /\ ~connect /\ maxNodes = ScenarioASteps
    /\ ~seen.offGoal /\ seen.iterations = ScenarioASteps
    /\ start = ScenarioAStart /\ goal = ScenarioAGoal

\* The gap from every feasible start to the goal the planner aims at (the
\* first feasible goal) is at least d.
GoalAtLeast(d) ==
    \A i \in 1..Len(feasibleStart) : Gap(feasibleStart[i], Head(feasibleGoal)) >= d

\* C16 (as claimed): with maxNodes = 1 and the gap from every feasible start
\* to the goal greater than stepSize, a planPath call that has returned has
\* returned false and has added nothing to the path, in both topologies and
\* both extension modes.
C16_ScenarioC ==
    (Returned /\ PlannerRan /\ maxNodes = 1 /\ GoalAtLeast(stepSize + 1)) =>
        (~result /\ path = pathIn)

\* C16 (amended): with maxNodes = 1, a planPath call that has returned has
\* returned false and has added nothing to the path in the bidirectional
\* topology, and in the single-tree topology in STEP mode when the gap from
\* every feasible start to the goal is at least twice stepSize.
C16_ScenarioCStep ==
    (Returned /\ PlannerRan /\ maxNodes = 1
     /\ (bidirectional \/ (~connect /\ GoalAtLeast(2 * stepSize)))) =>
        (~result /\ path = pathIn)

\* C16's case: the single-tree planner in STEP mode, maxNodes = 1, the goal
\* two steps away, has returned false after the one node its budget allows.
C16_Witness ==
    /\ Returned /\ ~result /\ PlannerRan /\ maxNodes = 1
    /\ ~bidirectional /\ ~connect /\ GoalAtLeast(2 * stepSize)
    /\ Size(start_rrt) = 2

\* The bidirectional planner is where planPath's tree initialisation left
\* it: no tree has grown and rrt1 is the start tree, as before the first
\* iteration (and before a later odd one, when nothing has grown since).
AtLoopEntry ==
    /\ rrt1 = "start"
    /\ Size(start_rrt) = Len(feasibleStart)
    /\ Size(goal_rrt) = Len(feasibleGoal)

\* C17 (as claimed): in the first iteration of the bidirectional loop the
\* growing tree (rrt1 of that iteration) is the start tree, and in every
\* later iteration it is the tree that was not the growing tree of the
\* iteration before: start, goal, start, ...
C17_RoleAlternation ==
    [][(pc = "bidir" /\ mMT' # mMT) =>
          rrt1' = (IF AtLoopEntry THEN "start" ELSE OtherTree(rrt1))]_vars

Passing(s) == SelectSeq(s, IsValid)

\* C19 (as claimed): in every planPath call every supplied start and every
\* supplied goal is checked with the oracle exactly once (and this before a
\* tree is created, reset or grown).
C19_FilteringFirst == pc # "idle" => sifted = start \o goal

\* C19 (amended): a planPath call checks every supplied start exactly once,
\* in order, and keeps those that pass; it checks every supplied goal
\* exactly once, and keeps those that pass, only if some start has passed,
\* and no goal otherwise; and a tree is created, reset or grown only in or
\* after a call's step that has checked every start and every goal and has
\* found a feasible start and a feasible goal.
C19_SiftBeforeTrees ==
    [][/\ (pc = "idle" /\ pc' # "idle") =>
              (/\ feasibleStart' = Passing(start')
               /\ sifted' = start' \o (IF feasibleStart' = <<>> THEN <<>> ELSE goal')
               /\ feasibleStart' # <<>> => feasibleGoal' = Passing(goal'))
       /\ (start_rrt' # start_rrt \/ goal_rrt' # goal_rrt) =>
              (/\ sifted' = start' \o goal'
               /\ feasibleStart' = Passing(start') /\ feasibleStart' # <<>>
               /\ feasibleGoal' = Passing(goal') /\ feasibleGoal' # <<>>)]_vars

\* C19's case: a planner runs after a sift that has discarded one of two
\* starts and one of two goals.
C19_Witness ==
    /\ pc \in {"single", "bidir"}
    /\ Len(start) = 2 /\ Len(feasibleStart) = 1
    /\ Len(goal) = 2 /\ Len(feasibleGoal) = 1
    /\ Len(sifted) = 4

\* Tree t holds one root per configuration of s, in the order of s, and
\* no other node.
RootsOnly(t, s) ==
    /\ t.cfgs = s
    /\ Len(t.parents) = Len(s)
    /\ \A i \in 1..Len(s) : t.parents[i] = 0

\* C20: when a call passes the sift, the start tree enters the loop holding
\* exactly one root per feasible start, in input order, and nothing else,
\* and in bidirectional mode the goal tree likewise one root per feasible
\* goal; and a start or a goal of the call that failed the oracle is never
\* a node of a tree.
C20_TreeInitialisation ==
    [][/\ (pc = "idle" /\ pc' # "idle" /\ pc' # "done") =>
              (/\ RootsOnly(start_rrt', Passing(start'))
               /\ bidirectional => RootsOnly(goal_rrt', Passing(goal')))
       /\ pc' # "idle" =>
              \A q \in Elems(start') \cup Elems(goal') :
                  CheckCollision(q) =>
                      q \notin Elems(start_rrt'.cfgs) \cup Elems(goal_rrt'.cfgs)]_vars

\* C20's case: a bidirectional call on a planner that has made a draw in an
\* earlier call is at the entry of its loop, one of its two starts
\* discarded, each tree holding its roots only.
C20_Witness ==
    /\ pc = "bidir" /\ AtLoopEntry /\ mMT = 1
    /\ Len(start) = 2 /\ Len(feasibleStart) = 1
    /\ RootsOnly(start_rrt, feasibleStart) /\ RootsOnly(goal_rrt, feasibleGoal)

\* The size a planner compares against maxNodes: the start tree's, and in
\* bidirectional mode the goal tree's too.
SizeOfUsedTrees(st, gt) == Size(st) + (IF bidirectional THEN Size(gt) ELSE 0)

\* C21: when a call passes the sift on a planner that holds a tree from an
\* earlier call, every tree the call uses (the start tree, and in
\* bidirectional mode the goal tree) is exactly the tree of the call's
\* feasible roots: no earlier node is present, the nearest neighbour of any
\* target is one of the new roots, and the number compared against maxNodes
\* counts the new roots only; in the loops that number is the size of the
\* trees in use.
C21_ResetBetweenCalls ==
    [][/\ (pc = "idle" /\ (pc' = "single" \/ pc' = "bidir") /\ start_rrt # NoTree) =>
              (/\ start_rrt' = NewTree(feasibleStart')
               /\ bidirectional => goal_rrt' = NewTree(feasibleGoal')
               /\ numNodes' = Len(feasibleStart')
                                + (IF bidirectional THEN Len(feasibleGoal') ELSE 0)
               /\ \A q \in Configs :
                      /\ Nearest(start_rrt', q) \in 1..Len(feasibleStart')
                      /\ start_rrt'.cfgs[Nearest(start_rrt', q)] \in Elems(feasibleStart'))
       /\ (pc' = "single" \/ pc' = "bidir") =>
              numNodes' = SizeOfUsedTrees(start_rrt', goal_rrt')]_vars

\* C21's case: a single-tree call on a planner that has made a draw in an
\* earlier call is at the entry of its loop, its tree holding the two
\* feasible starts of this call and no other node.
C21_Witness ==
    /\ pc = "single" /\ mMT = 1
    /\ Len(feasibleStart) = 2
    /\ start_rrt = NewTree(feasibleStart)
    /\ numNodes = 2

\* The configuration of a tree's active node.
ActiveConfig(t) == t.cfgs[t.active]

\* C22: in each bidirectional iteration the growing tree is extended first,
\* toward some target, and the other tree is then extended, in the same
\* mode, toward the configuration of the growing tree's active node; the
\* iteration ends in success exactly when that second extension returns
\* REACHED (in CONNECT mode: connect returns true), which is exactly when
\* the active nodes of the start tree and of the goal tree hold the same
\* configuration after it.
C22_MeetingProtocol ==
    [][(pc = "bidir" /\ mMT' # mMT) =>
          LET growingBefore == IF rrt1' = "start" THEN start_rrt ELSE goal_rrt
              growingAfter == IF rrt1' = "start" THEN start_rrt' ELSE goal_rrt'
              otherBefore == IF rrt1' = "start" THEN goal_rrt ELSE start_rrt
              otherAfter == IF rrt1' = "start" THEN goal_rrt' ELSE start_rrt'
              second == Extend(otherBefore, ActiveConfig(growingAfter))
          IN  /\ \E target \in Configs : growingAfter = Extend(growingBefore, target).tree
              /\ otherAfter = second.tree
              /\ (pc' = "done" /\ result') <=> second.status = "REACHED"
              /\ (pc' = "done" /\ result') <=>
                     ActiveConfig(start_rrt') = ActiveConfig(goal_rrt')
              /\ (pc' = "done") => result']_vars

\* C22's case: a meeting in CONNECT mode after the goal tree has grown by
\* two nodes and the start tree has reached the goal tree's active node.
C22_Witness ==
    /\ Returned /\ result /\ bidirectional /\ connect
    /\ Size(goal_rrt) >= Len(feasibleGoal) + 2
    /\ Size(start_rrt) > Len(feasibleStart)
    /\ ActiveConfig(start_rrt) = ActiveConfig(goal_rrt)

\* The parent chain of a tree's active node, from the root to the node.
RootToActive(t) == Reverse(ChainUp(t, t.active))

\* The parent chain of a tree's active node, from the node to the root.
ActiveToRoot(t) == ChainUp(t, t.active)

\* C23: when the bidirectional planner has returned success, whichever tree
\* was the growing one in the meeting iteration, the returned path is the
\* start tree's parent chain from its root to its active node followed by
\* the goal tree's parent chain from its active node to its root: it begins
\* at a root of the start tree, passes the two active nodes (the meeting
\* point) next to each other and ends at a root of the goal tree.
C23_PathAssembly ==
    (Returned /\ result /\ bidirectional) =>
        /\ ReturnedPath = RootToActive(start_rrt) \o ActiveToRoot(goal_rrt)
        /\ path = RootToActive(start_rrt) \o pathIn \o ActiveToRoot(goal_rrt)
        /\ ReturnedPath[1] = start_rrt.cfgs[Ancestor(start_rrt, start_rrt.active, nFront - 1)]
        /\ start_rrt.parents[Ancestor(start_rrt, start_rrt.active, nFront - 1)] = 0
        /\ ReturnedPath[nFront] = ActiveConfig(start_rrt)
        /\ ReturnedPath[nFront + 1] = ActiveConfig(goal_rrt)
        /\ Last(ReturnedPath) \in Elems(feasibleGoal)
        /\ Head(ReturnedPath) \in Elems(feasibleStart)

\* C23's case: a meeting in an iteration in which the start tree was the
\* growing tree, with a start and a goal that differ, two links between the
\* start tree's root and its active node, and a list that was not empty.
C23_Witness ==
    /\ Returned /\ result /\ bidirectional /\ rrt1 = "start"
    /\ Len(RootToActive(start_rrt)) >= 3
    /\ Len(ActiveToRoot(goal_rrt)) >= 2
    /\ Head(ReturnedPath) # Last(ReturnedPath)
    /\ pathIn # <<>>

\* C24: in every bidirectional iteration the growing tree, whichever it is,
\* is extended toward the first feasible goal when the number drawn is below
\* goalBias (here: in the iterations of a run in which every number drawn
\* so far was), and toward a random configuration otherwise; the goal tree
\* growing under the bias is thus extended toward one of its own roots.
C24_BidirectionalTarget ==
    [][(pc = "bidir" /\ mMT' # mMT) =>
          LET growingBefore == IF rrt1' = "start" THEN start_rrt ELSE goal_rrt
              growingAfter == IF rrt1' = "start" THEN start_rrt' ELSE goal_rrt'
          IN  /\ ~seen'.offGoal =>
                     growingAfter = Extend(growingBefore, Head(feasibleGoal)).tree
              /\ seen'.offGoal =>
                     \E sample \in Configs :
                         growingAfter = Extend(growingBefore, sample).tree]_vars

\* C24's case: after two iterations under the bias, with a goal that is no
\* start, the goal tree has grown by a copy of its own root and the start
\* tree has grown as the growing tree of the second iteration.
C24_Witness ==
    /\ bidirectional /\ PlannerRan
    /\ ~seen.offGoal /\ seen.iterations >= 2
    /\ Head(feasibleGoal) \notin Elems(feasibleStart)
    /\ Size(goal_rrt) > Len(feasibleGoal)
    /\ goal_rrt.cfgs[Len(feasibleGoal) + 1] = Head(feasibleGoal)
    /\ Size(start_rrt) >= Len(feasibleStart) + 2

\* C25: in single-tree mode only the first feasible goal is used: every
\* iteration whose draw is below goalBias extends the tree toward it, and
\* an iteration ends planning (with success) exactly when the active node
\* is within stepSize of it; a node within stepSize of another feasible
\* goal ends nothing.
C25_FirstGoalOnly ==
    [][\A r \in RandomValues, sample \in Configs :
          SingleTreeIteration(r, sample) =>
              /\ r < goalBias => start_rrt' = Extend(start_rrt, Head(feasibleGoal)).tree
              /\ (pc' = "done" /\ result') <=>
                     Gap(ActiveConfig(start_rrt'), Head(feasibleGoal)) < stepSize
              /\ pc' = "single" \/ (pc' = "done" /\ result')]_vars

\* C25's case: the single-tree planner goes on after an iteration that has
\* put a node at the second of two feasible goals, a step or more away
\* from the first.
C25_Witness ==
    /\ pc = "single" /\ Len(feasibleGoal) = 2
    /\ Size(start_rrt) > Len(feasibleStart)
    /\ start_rrt.active > Len(feasibleStart)
    /\ ActiveConfig(start_rrt) = feasibleGoal[2]
    /\ Gap(ActiveConfig(start_rrt), Head(feasibleGoal)) >= stepSize

\* C26 (as claimed): in a bidirectional iteration in which the growing tree
\* has added no node, the other tree is extended toward the configuration
\* of the growing tree's nearest neighbour to the iteration's target.
C26_TrappedTargetIsNearest ==
    [][\A r \in RandomValues, sample \in Configs :
          CountedBidirectionalIteration(r, sample) =>
              LET growingBefore == IF rrt1' = "start" THEN start_rrt ELSE goal_rrt
                  growingAfter == IF rrt1' = "start" THEN start_rrt' ELSE goal_rrt'
                  otherBefore == IF rrt1' = "start" THEN goal_rrt ELSE start_rrt
                  otherAfter == IF rrt1' = "start" THEN goal_rrt' ELSE start_rrt'
                  nearest == Nearest(growingBefore, BidirectionalTarget(r, sample))
              IN  Size(growingAfter) = Size(growingBefore) =>
                      otherAfter = Extend(otherBefore, growingBefore.cfgs[nearest]).tree]_vars

\* The candidate of a step of tree t toward target: at most stepSize from
\* the node of t nearest to target, toward target.
CandidateOf(t, target) == Candidate(t.cfgs[Nearest(t, target)], target)

OneNodeMore(a, b, q, n) ==
    /\ Size(b) = Size(a) + 1
    /\ b.cfgs = Append(a.cfgs, q)
    /\ b.parents = Append(a.parents, n)
    /\ b.active = Size(a) + 1

\* C28: a tryStep (an extension in STEP mode) whose candidate passes the
\* oracle inserts exactly one node, the candidate, whose parent is the node
\* that was nearest to the target before the insertion, and makes it the
\* active node; it returns REACHED (seen in the bidirectional planner's
\* second extension as the meeting) if and only if the candidate is the
\* target, that is, the nearest node was within stepSize of the target.
C28_StepInsertsOne ==
    [][\A r \in RandomValues, sample \in Configs :
          /\ (SingleTreeIteration(r, sample) /\ ~connect) =>
                 LET target == IF r < goalBias THEN Head(feasibleGoal) ELSE sample
                     cand == CandidateOf(start_rrt, target)
                 IN  cand \notin obstacles =>
                         OneNodeMore(start_rrt, start_rrt', cand, Nearest(start_rrt, target))
          /\ (BidirectionalIteration(r, sample) /\ ~connect) =>
                 LET target == IF r < goalBias THEN Head(feasibleGoal) ELSE sample
                     growingBefore == IF rrt1' = "start" THEN start_rrt ELSE goal_rrt
                     growingAfter == IF rrt1' = "start" THEN start_rrt' ELSE goal_rrt'
                     otherBefore == IF rrt1' = "start" THEN goal_rrt ELSE start_rrt
                     otherAfter == IF rrt1' = "start" THEN goal_rrt' ELSE start_rrt'
                     cand1 == CandidateOf(growingBefore, target)
                     target2 == ActiveConfig(growingAfter)
                     nearest2 == Nearest(otherBefore, target2)
                     cand2 == CandidateOf(otherBefore, target2)
                 IN  /\ cand1 \notin obstacles =>
                            OneNodeMore(growingBefore, growingAfter, cand1,
                                        Nearest(growingBefore, target))
                     /\ cand2 \notin obstacles =>
                            /\ OneNodeMore(otherBefore, otherAfter, cand2, nearest2)
                            /\ (pc' = "done" /\ result') <=> cand2 = target2
                            /\ cand2 = target2 <=>
                                   Gap(otherBefore.cfgs[nearest2], target2) <= stepSize]_vars

\* C28's case: a bidirectional iteration in STEP mode has added one node to
\* each tree, and the start tree's, a step from its parent, is not at the
\* goal tree's active node: the second tryStep has returned ADVANCED.
C28_Witness ==
    /\ pc = "bidir" /\ ~connect /\ rrt1 = "goal"
    /\ Size(start_rrt) = Len(feasibleStart) + 1
    /\ Size(goal_rrt) = Len(feasibleGoal) + 1
    /\ start_rrt.active = Size(start_rrt)
    /\ start_rrt.parents[start_rrt.active] # 0
    /\ ActiveConfig(start_rrt) # ActiveConfig(goal_rrt)

\* The gap between node i of tree t and its parent.
EdgeLength(t, i) == Gap(t.cfgs[i], t.cfgs[t.parents[i]])

\* Every node of tree t that is not a root lies within stepSize of its
\* parent.
EdgesWithinStep(t) ==
    \A i \in 1..Size(t) : t.parents[i] # 0 => EdgeLength(t, i) <= stepSize

\* C29: in every reachable state every non-root node of the start tree and
\* of the goal tree lies within stepSize of its parent, whatever tryStep
\* and connect calls either planner has made.
C29_EdgeLength == EdgesWithinStep(start_rrt) /\ EdgesWithinStep(goal_rrt)

\* C29's case: with stepSize 2, a tree holds a node a full step from its
\* parent and a node that stopped short of a step, at its target.
C29_Witness ==
    /\ stepSize = 2
    /\ \E i, j \in 1..Size(start_rrt) :
           /\ start_rrt.parents[i] # 0 /\ EdgeLength(start_rrt, i) = stepSize
           /\ start_rrt.parents[j] # 0 /\ EdgeLength(start_rrt, j) = 1

\* The number of steps of size stepSize that cover the gap d: d / stepSize,
\* rounded up.
StepsToCover(d) == (d + stepSize - 1) \div stepSize

\* The nodes a connect toward target has added to tree before, which it has
\* left as tree after.
Added(before, after) == Size(after) - Size(before)

\* The last step of the connect returned REACHED: the node it added last is
\* at the target.
EndedReached(before, after, target) ==
    Added(before, after) >= 1 /\ after.cfgs[Size(after)] = target

\* The last step of the connect returned TRAPPED: the candidate of a step of
\* the tree it has left is in collision.
EndedTrapped(before, after, target) == CandidateOf(after, target) \in obstacles

\* The tryStep calls the connect has made: one for each node added, and the
\* one that returned TRAPPED.
StepsMade(before, after, target) ==
    Added(before, after) + (IF EndedReached(before, after, target) THEN 0 ELSE 1)

\* What a connect toward target that has turned tree before into tree after
\* has done, apart from the number of its steps: it has kept the nodes that
\* were there, has added nodes that are each a step from the one before,
\* none but the last at the target, and has stopped at a step that returned
\* REACHED or TRAPPED.
ConnectRan(before, after, target) ==
    /\ Extends(before, after)
    /\ after.active = (IF Added(before, after) = 0 THEN before.active ELSE Size(after))
    /\ \A i \in (Size(before) + 1)..(Size(after) - 1) : after.cfgs[i] # target
    /\ \A i \in (Size(before) + 2)..Size(after) : after.parents[i] = i - 1
    /\ EndedReached(before, after, target) \/ EndedTrapped(before, after, target)
    /\ StepsMade(before, after, target) >= 1

\* The gap between the target and the node of tree t nearest to it.
NearestGap(t, target) == Gap(t.cfgs[Nearest(t, target)], target)

\* C30 (as claimed): every connect(target) the planners make (an extension
\* in CONNECT mode) stops at the first tryStep that returns TRAPPED or
\* REACHED, after at least one step and at most ceil(gap(nearest, target) /
\* stepSize) steps, and returns true (seen in the bidirectional planner's
\* second extension as the meeting) if and only if the last step returned
\* REACHED.
C30_ConnectSteps ==
    [][\A r \in RandomValues, sample \in Configs :
          /\ (SingleTreeIteration(r, sample) /\ connect) =>
                 LET target == IF r < goalBias THEN Head(feasibleGoal) ELSE sample
                 IN  /\ ConnectRan(start_rrt, start_rrt', target)
                     /\ StepsMade(start_rrt, start_rrt', target)
                            <= StepsToCover(NearestGap(start_rrt, target))
          /\ (BidirectionalIteration(r, sample) /\ connect) =>
                 LET target == IF r < goalBias THEN Head(feasibleGoal) ELSE sample
                     growingBefore == IF rrt1' = "start" THEN start_rrt ELSE goal_rrt
                     growingAfter == IF rrt1' = "start" THEN start_rrt' ELSE goal_rrt'
                     otherBefore == IF rrt1' = "start" THEN goal_rrt ELSE start_rrt
                     otherAfter == IF rrt1' = "start" THEN goal_rrt' ELSE start_rrt'
                     target2 == ActiveConfig(growingAfter)
                 IN  /\ ConnectRan(growingBefore, growingAfter, target)
                     /\ StepsMade(growingBefore, growingAfter, target)
                            <= StepsToCover(NearestGap(growingBefore, target))
                     /\ ConnectRan(otherBefore, otherAfter, target2)
                     /\ StepsMade(otherBefore, otherAfter, target2)
                            <= StepsToCover(NearestGap(otherBefore, target2))
                     /\ (pc' = "done" /\ result') <=>
                            EndedReached(otherBefore, otherAfter, target2)]_vars

\* The most steps a connect toward target makes from tree t: the steps that
\* cover the gap from the nearest node, and one when that gap is 0.
StepsAtMost(t, target) ==
    IF NearestGap(t, target) = 0 THEN 1 ELSE StepsToCover(NearestGap(t, target))

\* C30 (amended): every connect(target) the planners make stops at the
\* first tryStep that returns TRAPPED or REACHED, after at least one step
\* and at most ceil(gap(nearest, target) / stepSize) steps, or one step
\* when the target is at a node of the tree already (gap 0: the step adds a
\* copy of that node and returns REACHED); it returns true if and only if
\* the last step returned REACHED.
C30_ConnectStepsOrOne ==
    [][\A r \in RandomValues, sample \in Configs :
          /\ (SingleTreeIteration(r, sample) /\ connect) =>
                 LET target == IF r < goalBias THEN Head(feasibleGoal) ELSE sample
                 IN  /\ ConnectRan(start_rrt, start_rrt', target)
                     /\ StepsMade(start_rrt, start_rrt', target)
                            <= StepsAtMost(start_rrt, target)
          /\ (BidirectionalIteration(r, sample) /\ connect) =>
                 LET target == IF r < goalBias THEN Head(feasibleGoal) ELSE sample
                     growingBefore == IF rrt1' = "start" THEN start_rrt ELSE goal_rrt
                     growingAfter == IF rrt1' = "start" THEN start_rrt' ELSE goal_rrt'
                     otherBefore == IF rrt1' = "start" THEN goal_rrt ELSE start_rrt
                     otherAfter == IF rrt1' = "start" THEN goal_rrt' ELSE start_rrt'
                     target2 == ActiveConfig(growingAfter)
                 IN  /\ ConnectRan(growingBefore, growingAfter, target)
                     /\ StepsMade(growingBefore, growingAfter, target)
                            <= StepsAtMost(growingBefore, target)
                     /\ ConnectRan(otherBefore, otherAfter, target2)
                     /\ StepsMade(otherBefore, otherAfter, target2)
                            <= StepsAtMost(otherBefore, target2)
                     /\ (pc' = "done" /\ result') <=>
                            EndedReached(otherBefore, otherAfter, target2)]_vars

\* C30's case: in CONNECT mode with stepSize 1 the start tree, from its one
\* root, has added two nodes in a row, the second two steps from the root
\* and at the goal tree's active node: a bidirectional call has ended in a
\* meeting at the second step of a connect.
C30_Witness ==
    /\ bidirectional /\ connect /\ stepSize = 1 /\ Returned /\ result
    /\ ActiveConfig(start_rrt) = ActiveConfig(goal_rrt)
    /\ Len(feasibleStart) = 1
    /\ Size(start_rrt) >= 3
    /\ start_rrt.parents[3] = 2 /\ start_rrt.parents[2] = 1
    /\ Gap(start_rrt.cfgs[3], start_rrt.cfgs[1]) = 2

\* The nodes a connect toward target has added to tree before (leaving tree
\* after) form one chain: each node added after the first has the node
\* added just before it as its parent, and each node that another one
\* follows is, once added, strictly nearer to the target than every node
\* the tree held before it.
AddedChain(before, after, target) ==
    /\ \A i \in (Size(before) + 2)..Size(after) : after.parents[i] = i - 1
    /\ \A i \in (Size(before) + 1)..(Size(after) - 1) :
           \A j \in 1..(i - 1) :
               Gap(after.cfgs[i], target) < Gap(after.cfgs[j], target)

\* C31: within one connect(target) call (an extension in CONNECT mode) the
\* nodes inserted form a single chain: the node inserted by each tryStep
\* after the first has as its parent the node inserted by the tryStep just
\* before, which is then strictly the nearest node to the target.
C31_ConnectChain ==
    [][\A r \in RandomValues, sample \in Configs :
          /\ (SingleTreeIteration(r, sample) /\ connect) =>
                 AddedChain(start_rrt, start_rrt',
                            IF r < goalBias THEN Head(feasibleGoal) ELSE sample)
          /\ (BidirectionalIteration(r, sample) /\ connect) =>
                 LET target == IF r < goalBias THEN Head(feasibleGoal) ELSE sample
                     growingBefore == IF rrt1' = "start" THEN start_rrt ELSE goal_rrt
                     growingAfter == IF rrt1' = "start" THEN start_rrt' ELSE goal_rrt'
                     otherBefore == IF rrt1' = "start" THEN goal_rrt ELSE start_rrt
                     otherAfter == IF rrt1' = "start" THEN goal_rrt' ELSE start_rrt'
                 IN  /\ AddedChain(growingBefore, growingAfter, target)
                     /\ AddedChain(otherBefore, otherAfter, ActiveConfig(growingAfter))]_vars

\* C31's case: the single-tree planner in CONNECT mode, with stepSize 1 and
\* two roots, has added two nodes in one connect: the first hangs from a
\* root, the second from the first.
C31_Witness ==
    /\ ~bidirectional /\ connect /\ stepSize = 1 /\ mMT = 1
    /\ Len(feasibleStart) = 2
    /\ Size(start_rrt) = 4
    /\ start_rrt.parents[3] \in {1, 2}
    /\ start_rrt.parents[4] = 3

\* The planner's next step is its return with failure, with no draw made
\* and nothing changed in the trees or in the caller's list.
FailsWithoutIteration ==
    /\ pc' = "done" /\ ~result'
    /\ mMT' = mMT
    /\ start_rrt' = start_rrt /\ goal_rrt' = goal_rrt
    /\ path' = path

RootCount == Len(feasibleStart) + (IF bidirectional THEN Len(feasibleGoal) ELSE 0)

\* C33: in STEP mode, when the roots are not more than maxNodes, the size
\* of the single tree, and the combined size of the two trees of the
\* bidirectional planner, is at most maxNodes + 1 in every state.
C33_StepOvershoot ==
    (~connect /\ PlannerRan /\ pc # "idle" /\ RootCount <= maxNodes) =>
        SizeOfUsedTrees(start_rrt, goal_rrt) <= maxNodes + 1

\* C33's case: in STEP mode the bidirectional planner has ended without a
\* meeting with one node more than maxNodes in its two trees, and (in other
\* runs) the single-tree planner likewise.
C33_Witness ==
    /\ ~connect /\ Returned /\ ~result /\ PlannerRan /\ bidirectional
    /\ RootCount < maxNodes
    /\ Size(start_rrt) + Size(goal_rrt) = maxNodes + 1

\* C34: a call that returns failure leaves the caller's list exactly as it
\* was passed in, and while a call runs the list changes only in the step
\* that returns success.
C34_PathWrittenOnSuccessOnly ==
    [][/\ (pc' = "done" /\ ~result') => path' = pathIn'
       /\ (pc # "idle" /\ pc' # "idle" /\ path' # path) => (pc' = "done" /\ result')]_vars

\* C34's case: a planner that made iterations has run out of its budget and
\* returned failure to a caller whose list was not empty.
C34_Witness ==
    /\ Returned /\ ~result /\ PlannerRan
    /\ mMT # 0
    /\ pathIn # <<>> /\ path = pathIn

\* C35: when a call in which a start and a goal passed the sift has returned,
\* with success or with failure, the robot's positions are the positions
\* saved at entry.
C35_RestoredAfterPlanner ==
    (Returned /\ PlannerRan) => positions = savedConfiguration

\* C35's case: a planner has returned failure after at least one iteration,
\* and the sift's last query had left the robot at other positions than
\* the saved ones; (in other runs) the same with success.
C35_Witness ==
    /\ Returned /\ PlannerRan /\ ~result
    /\ mMT # 0
    /\ Last(sifted) # savedConfiguration
    /\ positions = savedConfiguration

\* The nodes of the start tree that are not roots and whose gap to the
\* first feasible goal is less than stepSize.
NearGoalNodes(t) ==
    {i \in (Len(feasibleStart) + 1)..Size(t) : Gap(t.cfgs[i], Head(feasibleGoal)) < stepSize}

\* C36: in STEP mode, an iteration of the single-tree loop that inserts a
\* node whose gap to the goal is less than stepSize ends the call with
\* success and a path that ends at that node; hence whenever the loop is at
\* its top no node inserted earlier (no node but the roots) has a gap to
\* the goal of less than stepSize.
C36_GoalDetectedAtOnce ==
    [][\A r \in RandomValues, sample \in Configs :
          (SingleTreeIteration(r, sample) /\ ~connect) =>
              /\ NearGoalNodes(start_rrt) = {}
              /\ (Size(start_rrt') > Size(start_rrt)
                  /\ Gap(Last(start_rrt'.cfgs), Head(feasibleGoal)) < stepSize) =>
                     /\ pc' = "done" /\ result'
                     /\ start_rrt'.active = Size(start_rrt')
                     /\ Last(ReturnedPath') = Last(start_rrt'.cfgs)
                     /\ Len(ReturnedPath') >= 2]_vars

\* C36's case: in STEP mode with two feasible goals, the second iteration
\* of the single-tree loop has inserted the tree's third node, nearer than
\* stepSize to the first goal, and the call has returned success with the
\* path to it.
C36_Witness ==
    /\ ~connect /\ ~bidirectional /\ Returned /\ result
    /\ Len(feasibleGoal) = 2 /\ feasibleGoal[1] # feasibleGoal[2]
    /\ Len(feasibleStart) = 1
    /\ Size(start_rrt) = 3
    /\ NearGoalNodes(start_rrt) = {3}
    /\ Last(ReturnedPath) = start_rrt.cfgs[3]

\* C38: setShape with the shape the frame holds changes neither the stored
\* shape nor the signal's raises; setShape with another shape stores it and
\* raises the signal once, with the shape held before and the new one; so
\* a setShape call with the argument of the call before never raises.
C38_SetShape ==
    [][\A shape \in Shapes :
          SetShape(shape) =>
              /\ shape = mShape => (mShape' = mShape /\ raised' = raised)
              /\ shape # mShape =>
                     /\ mShape' = shape
                     /\ raised' = Append(raised, [old |-> mShape, new |-> shape])
              /\ (given # <<>> /\ Last(given) = shape) => raised' = raised]_vars

\* C38's case: setShape was called twice with the same shape, one the frame
\* did not hold, and the signal was raised once, from no shape to it.
C38_Witness ==
    /\ Len(given) = 2 /\ given[1] = given[2] /\ given[1] # NoShape
    /\ mShape = given[1]
    /\ raised = <<[old |-> NoShape, new |-> given[1]]>>

=============================================================================
